---------------------------- MODULE Spec2Model ----------------------------
(***************************************************************************)
(* A model of the nonna backend: the natural-language transaction parser   *)
(* (backend/app/ai_parser.py), the category and transaction store with its *)
(* HTTP handlers (backend/app/crud.py, backend/app/main.py) and the        *)
(* analytics summary (crud.get_analytics_summary).                         *)
(*                                                                         *)
(* Three specifications share the module:                                  *)
(*   SpecParser     one caller of parse_transaction and the generation     *)
(*                  service it calls;                                      *)
(*   SpecStore      the worker processes (startup, then serving requests)  *)
(*                  over the shared category and transaction tables;       *)
(*   SpecAnalytics  get_analytics_summary applied to bounded transaction   *)
(*                  tables.                                                *)
(***************************************************************************)
EXTENDS Integers, Sequences, FiniteSets, TLC

VARIABLES
    pc,             \* parser: position of the caller of parse_transaction
    user_input,     \* parser: the argument of the current invocation
    calls,          \* parser: outbound calls made by the current invocation
    outcome,        \* parser: what the generation service did
    result,         \* parser: how parse_transaction ended
    wpc,            \* store: position of every worker process
    categories,     \* store: the categories table, row i has id i
    transactions,   \* store: the transactions table, in id order
    http_response,  \* store: the last response a handler produced
    query           \* store: the date bounds of the last summary request

parser_vars == <<pc, user_input, calls, outcome, result>>
store_vars  == <<wpc, categories, transactions, http_response, query>>
vars        == <<pc, user_input, calls, outcome, result,
                 wpc, categories, transactions, http_response, query>>

---------------------------------------------------------------------------
(* Sequence helpers *)

Range(s) == {s[i] : i \in 1..Len(s)}

RECURSIVE SumSeq(_)
SumSeq(s) == IF s = <<>> THEN 0 ELSE s[1] + SumSeq(Tail(s))

Abs(n) == IF n < 0 THEN -n ELSE n

---------------------------------------------------------------------------
(* JSON values as json.loads produces them.  One record shape for all, so  *)
(* that any two values compare: t is the Python type, s the str value, n   *)
(* the numeric value (amounts are counted in cents).                       *)

JStr(x) == [t |-> "str",  s |-> x,  n |-> 0]
JNum(x) == [t |-> "num",  s |-> "", n |-> x]
JNull   == [t |-> "None", s |-> "", n |-> 0]
JList   == [t |-> "list", s |-> "", n |-> 0]
\* dict.get(key) on a missing key: None, or the default that was passed.
Missing == [t |-> "missing", s |-> "", n |-> 0]

CATEGORIES ==
    <<"Food & Drink", "Transportation", "Entertainment", "Shopping",
      "Bills & Utilities", "Health", "Income", "Other">>

TRANSACTION_TYPES == <<"expense", "income">>

\* `value in list` for a value that json.loads produced: equality with one
\* of the list's strings.
InList(v, list) == v.t = "str" /\ v.s \in Range(list)

---------------------------------------------------------------------------
(* The text of a generation response, as a sequence of lexical chunks.     *)

NoObj == [amount |-> Missing, description |-> Missing,
          category |-> Missing, transaction_type |-> Missing]

\* kind: object | array | string | number | null are JSON documents,
\* invalid is text that is no JSON document.
Doc(kind, obj) == [kind |-> kind, obj |-> obj]
NoDoc == Doc("none", NoObj)

TDoc(d)    == [tok |-> "doc", doc |-> d]
TFenceJson == [tok |-> "fence_json", doc |-> NoDoc]   \* ```json
TFence     == [tok |-> "fence", doc |-> NoDoc]        \* ```
TNewline   == [tok |-> "nl", doc |-> NoDoc]           \* \n
TSpace     == [tok |-> "ws", doc |-> NoDoc]           \* blanks
TProse     == [tok |-> "prose", doc |-> NoDoc]        \* words outside JSON

IsBlank(t) == t.tok \in {"nl", "ws"}

RECURSIVE LStrip(_)
LStrip(s) == IF s # <<>> /\ IsBlank(s[1]) THEN LStrip(Tail(s)) ELSE s

RECURSIVE RStrip(_)
RStrip(s) ==
    IF s # <<>> /\ IsBlank(s[Len(s)])
    THEN RStrip(SubSeq(s, 1, Len(s) - 1)) ELSE s

\* str.strip()
strip(s) == RStrip(LStrip(s))

\* str.startswith("```")
StartsWithFence(s) == s # <<>> /\ s[1].tok \in {"fence", "fence_json"}

\* re.sub(r'^```json?\n?', '', text): the opening fence goes only when
\* "jso" follows the backticks, then an optional newline goes with it.
SubOpeningFence(s) ==
    IF s # <<>> /\ s[1].tok = "fence_json"
    THEN IF Len(s) >= 2 /\ s[2].tok = "nl"
         THEN SubSeq(s, 3, Len(s)) ELSE Tail(s)
    ELSE s

\* re.sub(r'\n?```$', '', text)
SubClosingFence(s) ==
    IF s # <<>> /\ s[Len(s)].tok = "fence"
    THEN IF Len(s) >= 2 /\ s[Len(s) - 1].tok = "nl"
         THEN SubSeq(s, 1, Len(s) - 2) ELSE SubSeq(s, 1, Len(s) - 1)
    ELSE s

\* Lines 58-61: the clean-up runs only when the text starts with a fence.
CleanFences(s) ==
    IF StartsWithFence(s) THEN SubClosingFence(SubOpeningFence(s)) ELSE s

\* json.loads: blanks around the document are skipped; anything else than
\* exactly one JSON document raises JSONDecodeError.
NonBlank(s) == SelectSeq(s, LAMBDA t : ~IsBlank(t))

json_loads(s) ==
    LET body == NonBlank(s) IN
    IF Len(body) = 1 /\ body[1].tok = "doc" /\ body[1].doc.kind # "invalid"
    THEN [ok |-> TRUE,  doc |-> body[1].doc, exc |-> ""]
    ELSE [ok |-> FALSE, doc |-> NoDoc,       exc |-> "JSONDecodeError"]

---------------------------------------------------------------------------
(* Validation and repair, lines 65-74 *)

\* result.get(key) of a parsed object
Get(obj, key) ==
    LET v == obj[key] IN IF v.t = "missing" THEN JNull ELSE v

\* Lines 66-67
ValidateCategoryRaw(v) == v

ValidateCategory(v) == IF ~InList(v, CATEGORIES) THEN JStr("Other") ELSE v

\* Lines 70-71
ValidateType(v) ==
    IF ~InList(v, TRANSACTION_TYPES) THEN JStr("expense") ELSE v

\* float(str): the strings the model uses, in cents.
NumericStrings == {"12", "-3.5"}

StrToCents(s) == IF s = "12" THEN 1200 ELSE -350

\* float(x), line 74: a number converts, a numeric string parses, any
\* other string raises ValueError, None and containers raise TypeError.
float(v) ==
    CASE v.t = "num" -> [ok |-> TRUE, n |-> v.n, exc |-> ""]
      [] v.t = "str" /\ v.s \in NumericStrings ->
             [ok |-> TRUE, n |-> StrToCents(v.s), exc |-> ""]
      [] v.t = "str" /\ v.s \notin NumericStrings ->
             [ok |-> FALSE, n |-> 0, exc |-> "ValueError"]
      [] OTHER -> [ok |-> FALSE, n |-> 0, exc |-> "TypeError"]

\* result.get("amount", 0)
GetAmount(obj) ==
    IF obj.amount.t = "missing" THEN JNum(0) ELSE obj.amount

\* abs(...) of line 74
EnsurePositiveSigned(n) == n

EnsurePositive(n) == Abs(n)


---------------------------------------------------------------------------
(* What parse_transaction hands back: a dict it returns (how = "return")   *)
(* or an exception that leaves it (how = "raise").  keys are the keys of   *)
(* the returned dict; error is the message, as the fixed text put in front *)
(* and str(e).                                                             *)

NoData == [amount |-> 0, description |-> Missing,
           category |-> Missing, transaction_type |-> Missing]

NoError == <<"", "">>

PARSE_FAILED == "Failed to parse AI response: "

\* Lines 76-79
Success(d) ==
    [how |-> "return", success |-> TRUE, keys |-> {"success", "data"},
     data |-> d, error |-> NoError]

Failure(err) ==
    [how |-> "return", success |-> FALSE, keys |-> {"success", "error"},
     data |-> NoData, error |-> err]

Uncaught(e) ==
    [how |-> "raise", success |-> FALSE, keys |-> {},
     data |-> NoData, error |-> <<"", e>>]

NoResult ==
    [how |-> "none", success |-> FALSE, keys |-> {},
     data |-> NoData, error |-> NoError]

\* Lines 81-85: except json.JSONDecodeError
except_JSONDecodeError(e) == Failure(<<PARSE_FAILED, e>>)

\* Lines 86-90: except Exception
except_ExceptionReraised(e) == Uncaught(e)

except_Exception(e) == Failure(<<"", e>>)

\* Lines 63-79: the parsed value is used as a dict.  On anything else the
\* first result.get raises AttributeError, which only `except Exception`
\* catches.
ValidateAndRepair(doc) ==
    IF doc.kind # "object"
    THEN except_Exception("AttributeError")
    ELSE LET obj == doc.obj
             cat == ValidateCategory(Get(obj, "category"))
             typ == ValidateType(Get(obj, "transaction_type"))
             amt == float(GetAmount(obj))
         IN  IF ~amt.ok
             THEN except_Exception(amt.exc)
             ELSE Success([amount           |-> EnsurePositive(amt.n),
                           description      |-> obj.description,
                           category         |-> cat,
                           transaction_type |-> typ])

\* Lines 45-90, given what the generation service did:
\*   raise       client.chat.completions.create raised
\*   no_choices  the response has an empty choices list (IndexError)
\*   no_content  message.content is None (AttributeError on .strip())
\*   text        message.content is the text
parse_transaction(o) ==
    CASE o.kind = "raise"      -> except_Exception("APIError")
      [] o.kind = "no_choices" -> except_Exception("IndexError")
      [] o.kind = "no_content" -> except_Exception("AttributeError")
      [] OTHER ->
            LET result_text == CleanFences(strip(o.text))
                parsed      == json_loads(result_text)
            IN  IF ~parsed.ok
                THEN except_JSONDecodeError(parsed.exc)
                ELSE ValidateAndRepair(parsed.doc)

---------------------------------------------------------------------------
(* The generation service: the responses the model draws from.             *)

UserInputs == {"Starbucks $8.45", "Paycheck $2500"}

AmountValues ==
    {Missing, JNum(-250), JNum(0), JNum(845), JStr("12"), JStr("-3.5"),
     JStr("abc"), JNull, JList}

CategoryValues ==
    {Missing, JStr("Food & Drink"), JStr("Income"), JStr("Other"),
     JStr("Groceries"), JStr(""), JNum(5), JNull}

TypeValues ==
    {Missing, JStr("expense"), JStr("income"), JStr("Expense"), JNull}

DescriptionValues == {Missing, JStr("Starbucks"), JStr("")}

Objects ==
    [amount : AmountValues, description : DescriptionValues,
     category : CategoryValues, transaction_type : TypeValues]

Docs ==
    {Doc("object", o) : o \in Objects}
    \cup {Doc(k, NoObj) : k \in {"array", "string", "number", "null", "invalid"}}

\* The layouts a response text comes in, around one document d.
Layouts(d) ==
    { <<TDoc(d)>>,
      <<TSpace, TDoc(d), TNewline>>,
      <<TFenceJson, TNewline, TDoc(d), TNewline, TFence>>,
      <<TFenceJson, TDoc(d), TFence>>,
      <<TFence, TNewline, TDoc(d), TNewline, TFence>>,
      <<TFenceJson, TNewline, TDoc(d)>>,
      <<TDoc(d), TNewline, TFence>>,
      <<TProse, TDoc(d)>>,
      <<TDoc(d), TProse>>,
      <<TDoc(d), TDoc(d)>> }

NoText == <<>>

Text(t) == [kind |-> "text", text |-> t]

\* The outcomes that carry no document.
BareOutcomes ==
    {[kind |-> k, text |-> NoText] : k \in {"raise", "no_choices", "no_content"}}
    \cup {Text(NoText), Text(<<TProse>>), Text(<<TFenceJson, TNewline, TFence>>)}

NoOutcome == [kind |-> "none", text |-> NoText]

---------------------------------------------------------------------------
(* The parser's caller *)

ParserInit ==
    /\ pc = "idle"
    /\ user_input = ""
    /\ calls = 0
    /\ outcome = NoOutcome
    /\ result = NoResult

\* Lines 14-54: the prompt is built and the one request is sent.
Call(text) ==
    /\ pc = "idle"
    /\ pc' = "awaiting"
    /\ user_input' = text
    /\ calls' = calls + 1
    /\ UNCHANGED <<outcome, result>>
    /\ UNCHANGED store_vars

\* Lines 45-90: the service answers or fails, and the function ends.
ServiceResponds(o) ==
    /\ pc = "awaiting"
    /\ pc' = "returned"
    /\ outcome' = o
    /\ result' = parse_transaction(o)
    /\ UNCHANGED <<user_input, calls>>
    /\ UNCHANGED store_vars

\* The caller takes the result; nothing is kept between invocations.
Return ==
    /\ pc = "returned"
    /\ pc' = "idle"
    /\ user_input' = ""
    /\ calls' = 0
    /\ outcome' = NoOutcome
    /\ result' = NoResult
    /\ UNCHANGED store_vars

ParserNext ==
    \/ \E text \in UserInputs : Call(text)
    \/ \E o \in BareOutcomes : ServiceResponds(o)
    \/ \E d \in Docs : \E t \in Layouts(d) : ServiceResponds(Text(t))
    \/ Return

---------------------------------------------------------------------------
(* The store: the categories and transactions tables.                      *)

\* The greatest transaction id the model hands out.
MaxId == 3

DEFAULT_COLOR == "#6B7280"

default_categories ==
    << [name |-> "Food & Drink",      color |-> "#EF4444"],
       [name |-> "Transportation",    color |-> "#F59E0B"],
       [name |-> "Entertainment",     color |-> "#8B5CF6"],
       [name |-> "Shopping",          color |-> "#EC4899"],
       [name |-> "Bills & Utilities", color |-> "#3B82F6"],
       [name |-> "Health",            color |-> "#10B981"],
       [name |-> "Income",            color |-> "#22C55E"],
       [name |-> "Other",             color |-> DEFAULT_COLOR] >>

Names(cats) == {cats[i].name : i \in 1..Len(cats)}

\* Category.name is unique=True: a commit that would store a name twice
\* raises IntegrityError and stores nothing.
UniqueNameUnchecked(cats, rows) == TRUE

UniqueName(cats, rows) ==
    /\ Names(cats) \cap Names(rows) = {}
    /\ Cardinality(Names(rows)) = Len(rows)

\* db.query(models.Category).count() == 0
NoCategories(cats) == Len(cats) = 0

\* crud.get_category: the row with that id, or None
CategoryExistsUnchecked(cats, category_id) == TRUE

CategoryExists(cats, category_id) == category_id \in 1..Len(cats)

Ids(txs) == {txs[i].id : i \in 1..Len(txs)}

RECURSIVE MaxOf(_)
MaxOf(S) ==
    IF S = {} THEN 0
    ELSE LET x == CHOOSE y \in S : TRUE
             m == MaxOf(S \ {x})
         IN  IF x > m THEN x ELSE m

\* The id the database gives a new transaction row.
NextId(txs) == MaxOf(Ids(txs)) + 1

NoBody == [total_income |-> 0, total_expenses |-> 0, net_balance |-> 0,
           by_category |-> <<>>]

Response(status) == [status |-> status, body |-> NoBody]

NoResponse == Response(0)

NoQuery == [start_date |-> 0, end_date |-> 0]

---------------------------------------------------------------------------
(* Worker processes.  A worker runs startup_event, then serves requests.   *)

Workers == {"w1", "w2"}

\* create_default_categories, line 32: the count is read.
StartupCheck(w) ==
    /\ wpc[w] = "starting"
    /\ wpc' = [wpc EXCEPT ![w] =
                 IF NoCategories(categories) THEN "seeding" ELSE "serving"]
    /\ UNCHANGED <<categories, transactions, http_response>>
    /\ UNCHANGED <<query, parser_vars>>

\* create_default_categories, lines 43-45: the eight rows are added and
\* committed together.  A failed commit leaves startup_event with the
\* exception and the worker does not come up.
StartupCommit(w) ==
    /\ wpc[w] = "seeding"
    /\ IF UniqueName(categories, default_categories)
       THEN /\ categories' = categories \o default_categories
            /\ wpc' = [wpc EXCEPT ![w] = "serving"]
       ELSE /\ categories' = categories
            /\ wpc' = [wpc EXCEPT ![w] = "failed"]
    /\ UNCHANGED <<transactions, http_response>>
    /\ UNCHANGED <<query, parser_vars>>

\* The process is started again; startup_event runs on every start.
Restart(w) ==
    /\ wpc[w] \in {"serving", "failed"}
    /\ wpc' = [wpc EXCEPT ![w] = "starting"]
    /\ UNCHANGED <<categories, transactions, http_response>>
    /\ UNCHANGED <<query, parser_vars>>

---------------------------------------------------------------------------
(* Request handlers.  A request is served by a worker that is up.          *)

Serving == {w \in Workers : wpc[w] = "serving"} # {}

CategoryRequests ==
    [name : {"Pets", "Other", ""}, color : {DEFAULT_COLOR}]

\* POST /api/categories: schemas.CategoryBase, then crud.create_category
create_category(req) ==
    /\ Serving
    /\ IF req.name = ""
       THEN /\ http_response' = Response(422)
            /\ UNCHANGED categories
       ELSE IF ~UniqueName(categories, <<req>>)
       THEN /\ http_response' = Response(500)
            /\ UNCHANGED categories
       ELSE /\ categories' = Append(categories, req)
            /\ http_response' = Response(201)
    /\ UNCHANGED <<wpc, transactions>>
    /\ UNCHANGED <<query, parser_vars>>

\* Amounts are counted in 1/256 of the currency unit: sums of such floats
\* are exact, and 64 is a whole number of cents while 2 and 3 are not.
RequestAmounts == {0, 64}

TransactionRequests ==
    [amount : RequestAmounts, transaction_type : {"expense", "income", "transfer"},
     date : {1}, category_id : {1, 9, 10}]

\* schemas.TransactionBase: amount gt=0, transaction_type pattern
ValidTransaction(req) ==
    /\ req.amount > 0
    /\ req.transaction_type \in Range(TRANSACTION_TYPES)

NewRow(id, req) ==
    [id |-> id, amount |-> req.amount, transaction_type |-> req.transaction_type,
     date |-> req.date, category_id |-> req.category_id]

\* POST /api/transactions: main.create_transaction, crud.create_transaction
create_transaction(req) ==
    /\ Serving
    /\ NextId(transactions) <= MaxId
    /\ IF ~ValidTransaction(req)
       THEN /\ http_response' = Response(422)
            /\ UNCHANGED transactions
       ELSE IF ~CategoryExists(categories, req.category_id)
       THEN /\ http_response' = Response(400)
            /\ UNCHANGED transactions
       ELSE /\ transactions' =
                   Append(transactions, NewRow(NextId(transactions), req))
            /\ http_response' = Response(201)
    /\ UNCHANGED <<wpc, categories>>
    /\ UNCHANGED <<query, parser_vars>>

\* DELETE /api/transactions/{id}: main.delete_transaction, crud.delete_transaction
delete_transaction(transaction_id) ==
    /\ Serving
    /\ IF transaction_id \in Ids(transactions)
       THEN /\ transactions' =
                   SelectSeq(transactions, LAMBDA t : t.id # transaction_id)
            /\ http_response' = Response(204)
       ELSE /\ http_response' = Response(404)
            /\ UNCHANGED transactions
    /\ UNCHANGED <<wpc, categories>>
    /\ UNCHANGED <<query, parser_vars>>

StoreInit ==
    /\ wpc = [w \in Workers |-> "starting"]
    /\ categories = <<>>
    /\ transactions = <<>>
    /\ http_response = NoResponse
    /\ query = NoQuery

StoreNext ==
    \/ \E w \in Workers : StartupCheck(w)
    \/ \E w \in Workers : StartupCommit(w)
    \/ \E w \in Workers : Restart(w)
    \/ \E req \in CategoryRequests : create_category(req)
    \/ \E req \in TransactionRequests : create_transaction(req)
    \/ \E id \in 1..MaxId : delete_transaction(id)

---------------------------------------------------------------------------
(* crud.get_analytics_summary *)

\* The most rows a transactions table holds in SpecAnalytics.
MaxTx == 3

\* round(): the nearest multiple, a tie going to the even one.  The value
\* is num/den with den > 0; the result counts multiples of the rounding
\* step.
RoundHalfEven(num, den) ==
    LET a == Abs(num)
        q == a \div den
        r == a % den
        m == IF 2 * r < den THEN q
             ELSE IF 2 * r > den THEN q + 1
             ELSE IF q % 2 = 0 THEN q ELSE q + 1
    IN  IF num < 0 THEN -m ELSE m

\* round(x, 2) of an amount counted in 1/256: the result in cents.
Round2(x) == RoundHalfEven(x * 100, 256)

\* Lines 119-122: `if start_date:` skips the bound when it is None (0 here).
InRange(t, start_date, end_date) ==
    /\ (start_date # 0 => t.date >= start_date)
    /\ (end_date # 0 => t.date <= end_date)

\* sum(t.amount for t in transactions if t.transaction_type == kind)
TotalOf(txs, kind) ==
    SumSeq([i \in 1..Len(SelectSeq(txs, LAMBDA t : t.transaction_type = kind)) |->
              SelectSeq(txs, LAMBDA t : t.transaction_type = kind)[i].amount])

\* Lines 136-139: one transaction enters category_totals.  The dict keeps
\* its keys in the order they were first inserted.
AddTo(totals, name, color, amount) ==
    IF \E i \in 1..Len(totals) : totals[i].name = name
    THEN [i \in 1..Len(totals) |->
            IF totals[i].name = name
            THEN [totals[i] EXCEPT !.total = @ + amount, !.count = @ + 1]
            ELSE totals[i]]
    ELSE Append(totals, [name |-> name, color |-> color,
                         total |-> amount, count |-> 1])

\* Line 133: only expenses are grouped.
GroupedAll(t) == TRUE

Grouped(t) == t.transaction_type = "expense"

\* Lines 131-139
RECURSIVE CategoryTotals(_, _, _)
CategoryTotals(txs, cats, totals) ==
    IF txs = <<>> THEN totals
    ELSE LET t == txs[1] IN
         CategoryTotals(Tail(txs), cats,
             IF Grouped(t)
             THEN AddTo(totals, cats[t.category_id].name,
                        cats[t.category_id].color, t.amount)
             ELSE totals)

\* Lines 143-151: percentage in tenths of a percent, total in cents.  The
\* percentage is rounded from the exact quotient; the float quotient differs
\* from it only where the exact one lies half-way between two tenths.
CategorySummary(data, total_expenses) ==
    [category_name  |-> data.name,
     category_color |-> data.color,
     total          |-> Round2(data.total),
     count          |-> data.count,
     percentage     |-> IF total_expenses > 0
                        THEN RoundHalfEven(data.total * 1000, total_expenses)
                        ELSE 0]

\* list.sort(key=lambda x: x.total, reverse=True): a stable sort, greatest
\* first, equal keys staying in the order they had.
RECURSIVE InsertDesc(_, _)
InsertDesc(sorted, x) ==
    IF sorted = <<>> THEN <<x>>
    ELSE IF sorted[1].total >= x.total
         THEN <<sorted[1]>> \o InsertDesc(Tail(sorted), x)
         ELSE <<x>> \o sorted

RECURSIVE SortInto(_, _)
SortInto(sorted, rest) ==
    IF rest = <<>> THEN sorted
    ELSE SortInto(InsertDesc(sorted, rest[1]), Tail(rest))

SortUnstable(s) == SortInto(<<>>, [i \in 1..Len(s) |-> s[Len(s) + 1 - i]])

SortByTotalDesc(s) == SortInto(<<>>, s)

\* Lines 117-161
analytics_summary(txs, cats, start_date, end_date) ==
    LET selected       == SelectSeq(txs, LAMBDA t : InRange(t, start_date, end_date))
        total_income   == TotalOf(selected, "income")
        total_expenses == TotalOf(selected, "expense")
        totals         == CategoryTotals(selected, cats, <<>>)
        by_category    == [i \in 1..Len(totals) |->
                             CategorySummary(totals[i], total_expenses)]
    IN  [total_income   |-> Round2(total_income),
         total_expenses |-> Round2(total_expenses),
         net_balance    |-> Round2(total_income - total_expenses),
         by_category    |-> SortByTotalDesc(by_category)]

\* The bounds a request carries; 0 is a bound left out.
StartDates == {0, 2}
EndDates == {0, 1}

\* GET /api/analytics/summary
get_analytics_summary(start_date, end_date) ==
    /\ Serving
    /\ http_response' =
          [status |-> 200,
           body |-> analytics_summary(transactions, categories, start_date, end_date)]
    /\ query' = [start_date |-> start_date, end_date |-> end_date]
    /\ UNCHANGED <<wpc, categories, transactions>>
    /\ UNCHANGED parser_vars

\* The rows SpecAnalytics draws its tables from: expenses of three amounts
\* in three categories on day 1, whole-cent expenses on day 2 as well, and
\* incomes in a category that also has expenses.
AnalyticsRows ==
    [amount : {2, 3, 64}, transaction_type : {"expense"},
     date : {1}, category_id : {1, 2, 3}]
    \cup [amount : {64}, transaction_type : {"expense"},
          date : {2}, category_id : {1, 2, 3}]
    \cup [amount : {3}, transaction_type : {"income"},
          date : {1, 2}, category_id : {1}]

\* The tables of n rows, with the ids 1..n.
AnalyticsTables(n) ==
    {[i \in 1..n |-> NewRow(i, f[i])] : f \in [1..n -> AnalyticsRows]}

AnalyticsInit ==
    /\ wpc = [w \in Workers |-> "serving"]
    /\ categories = default_categories
    /\ \E n \in 0..MaxTx : transactions \in AnalyticsTables(n)
    /\ http_response = NoResponse
    /\ query = NoQuery

AnalyticsNext ==
    \E s \in StartDates : \E e \in EndDates : get_analytics_summary(s, e)

---------------------------------------------------------------------------
(* Specifications *)

\* Nothing is stored and no worker is up while the parser is looked at.
InitParser == ParserInit /\ StoreInit

SpecParser == InitParser /\ [][ParserNext]_vars

InitStore == StoreInit /\ ParserInit

SpecStore == InitStore /\ [][StoreNext]_vars

InitAnalytics == AnalyticsInit /\ ParserInit

SpecAnalytics == InitAnalytics /\ [][AnalyticsNext]_vars

---------------------------------------------------------------------------
(* Properties of parse_transaction, under SpecParser *)

Returned == pc = "returned"

\* The response text after the fence clean-up, as json.loads reads it.
Parsed == json_loads(CleanFences(strip(outcome.text)))

\* The response is text that parses as a single JSON object.
WellFormed ==
    outcome.kind = "text" /\ Parsed.ok /\ Parsed.doc.kind = "object"

ResponseObject == Parsed.doc.obj

LegalCategory(v) == v.t = "str" /\ v.s \in Range(CATEGORIES)

LegalType(v) == v.t = "str" /\ v.s \in {"expense", "income"}

HasDraft == result.how = "return" /\ result.success /\ "data" \in result.keys

\* C1: every response that parses as a single JSON object, whatever its
\* field values, gives a success result whose draft has a category of the
\* taxonomy and a transaction_type of expense or income.
C1_WellFormedGivesLegalDraft ==
    (Returned /\ WellFormed) =>
        /\ HasDraft
        /\ LegalCategory(result.data.category)
        /\ LegalType(result.data.transaction_type)

\* float() accepts the value.
Coercible(v) == v.t = "num" \/ (v.t = "str" /\ v.s \in NumericStrings)

\* C2: a present amount that cannot be coerced to a number is treated as 0
\* and the result is still a success with a repaired draft.
C2_BadAmountBecomesZero ==
    (Returned /\ WellFormed /\ ResponseObject.amount.t # "missing"
       /\ ~Coercible(ResponseObject.amount)) =>
        /\ HasDraft
        /\ result.data.amount = 0

\* C3: text that is not a single JSON object after the fence clean-up,
\* valid JSON of another type included, gives a failure of the
\* malformed-response kind and no draft.
C3_NotAnObjectIsMalformed ==
    (Returned /\ outcome.kind = "text" /\ ~WellFormed) =>
        /\ result.how = "return"
        /\ ~result.success
        /\ "data" \notin result.keys
        /\ result.error[1] = PARSE_FAILED

\* C4: an invocation makes exactly one outbound call and ends by returning
\* either a success with a draft or a failure with an error, never with an
\* exception; a failed service call gives a failure with no draft.
C4_OneCallOneResult ==
    /\ calls <= 1
    /\ Returned =>
        /\ calls = 1
        /\ result.how = "return"
        /\ \/ result.success /\ result.keys = {"success", "data"}
           \/ ~result.success /\ result.keys = {"success", "error"}
                /\ result.error # NoError
        /\ outcome.kind = "raise" =>
              ~result.success /\ "data" \notin result.keys

C4_Witness ==
    Returned /\ outcome.kind = "raise" /\ calls = 1 /\ ~result.success

\* C5: in every draft the category is the response's category when that is
\* in the taxonomy and Other otherwise, the transaction_type is the
\* response's when that is expense or income and expense otherwise, and the
\* description is the response's own.
C5_RepairIsIdentityOrDefault ==
    (Returned /\ HasDraft) =>
        /\ WellFormed
        /\ result.data.category =
              IF LegalCategory(ResponseObject.category)
              THEN ResponseObject.category ELSE JStr("Other")
        /\ result.data.transaction_type =
              IF LegalType(ResponseObject.transaction_type)
              THEN ResponseObject.transaction_type ELSE JStr("expense")
        /\ result.data.description = ResponseObject.description

C5_Witness ==
    /\ Returned /\ HasDraft
    /\ ResponseObject.category = JStr("Groceries")
    /\ ResponseObject.transaction_type = JStr("income")
    /\ result.data.category = JStr("Other")
    /\ result.data.transaction_type = JStr("income")

---------------------------------------------------------------------------
(* Properties of get_analytics_summary, under SpecAnalytics *)

Summarised == http_response.status = 200

\* The transactions the last summary request read.
Selected ==
    SelectSeq(transactions,
              LAMBDA t : /\ (query.start_date # 0 => t.date >= query.start_date)
                         /\ (query.end_date # 0 => t.date <= query.end_date))

NameOf(t) == categories[t.category_id].name

\* The positions in Selected of the expenses of one category name.
ExpensesOf(name) ==
    {i \in 1..Len(Selected) :
        Selected[i].transaction_type = "expense" /\ NameOf(Selected[i]) = name}

RECURSIVE AmountOver(_)
AmountOver(S) ==
    IF S = {} THEN 0
    ELSE LET i == CHOOSE j \in S : TRUE
         IN  Selected[i].amount + AmountOver(S \ {i})

FirstSeen(name) == CHOOSE i \in ExpensesOf(name) :
                      \A j \in ExpensesOf(name) : i <= j

ByCategory == http_response.body.by_category

\* C7: by_category is in non-increasing order of rounded total, and two
\* categories with the same rounded total stand in the order in which
\* their first expense was met in the input.
C7_SortedDescendingStable ==
    Summarised =>
        \A i, j \in 1..Len(ByCategory) :
            i < j =>
               /\ ByCategory[i].total >= ByCategory[j].total
               /\ ByCategory[i].total = ByCategory[j].total =>
                     FirstSeen(ByCategory[i].category_name)
                        < FirstSeen(ByCategory[j].category_name)

C7_Witness ==
    /\ Summarised
    /\ Len(ByCategory) = 3
    /\ ByCategory[1].total > ByCategory[2].total
    /\ ByCategory[2].total = ByCategory[3].total
    /\ FirstSeen(ByCategory[1].category_name) = 2
    /\ FirstSeen(ByCategory[2].category_name) = 1

AllExpenses ==
    {i \in 1..Len(Selected) : Selected[i].transaction_type = "expense"}

RECURSIVE TotalsOver(_)
TotalsOver(S) ==
    IF S = {} THEN 0
    ELSE LET i == CHOOSE j \in S : TRUE
         IN  ByCategory[i].total + TotalsOver(S \ {i})

\* Every expense amount is a whole number of cents.
WholeCents == \A i \in AllExpenses : (Selected[i].amount * 100) % 256 = 0

\* C8: by_category has exactly one entry per category name with an expense;
\* its total is the rounded sum and its count the number of that category's
\* expenses, incomes adding to neither; the entries' totals add up to
\* total_expenses within a cent per entry, and exactly when the amounts are
\* whole cents.
C8_OneEntryPerExpenseCategory ==
    Summarised =>
        /\ \A i, j \in 1..Len(ByCategory) :
              i # j => ByCategory[i].category_name # ByCategory[j].category_name
        /\ {ByCategory[i].category_name : i \in 1..Len(ByCategory)}
              = {NameOf(Selected[i]) : i \in AllExpenses}
        /\ \A i \in 1..Len(ByCategory) :
              LET mine == ExpensesOf(ByCategory[i].category_name) IN
              /\ ByCategory[i].count = Cardinality(mine)
              /\ ByCategory[i].total = Round2(AmountOver(mine))
              /\ WholeCents => ByCategory[i].total * 256 = AmountOver(mine) * 100
        /\ http_response.body.total_expenses = Round2(AmountOver(AllExpenses))
        /\ Abs(TotalsOver(1..Len(ByCategory)) - http_response.body.total_expenses)
              <= Len(ByCategory)
        /\ WholeCents =>
              TotalsOver(1..Len(ByCategory)) = http_response.body.total_expenses

C8_Witness ==
    /\ Summarised
    /\ Len(ByCategory) = 2
    /\ \E i \in 1..Len(Selected) :
          /\ Selected[i].transaction_type = "income"
          /\ NameOf(Selected[i]) \in
                {ByCategory[k].category_name : k \in 1..Len(ByCategory)}
    /\ ~WholeCents
    /\ TotalsOver(1..Len(ByCategory)) = http_response.body.total_expenses

---------------------------------------------------------------------------
(* Properties of the store, under SpecStore *)

DefaultNames == {default_categories[i].name : i \in 1..Len(default_categories)}

StoredOnce(cats) ==
    \A n \in DefaultNames :
        Cardinality({i \in 1..Len(cats) : cats[i].name = n}) <= 1

\* C9: a startup adds rows to the categories table only when the table is
\* empty, and then exactly the eight defaults; a startup that finds a row
\* leaves the table as it is; no default name is ever stored twice.
C9_DefaultsSeededOnce ==
    [][ /\ StoredOnce(categories')
        /\ \A w \in Workers :
              /\ (wpc[w] \in {"starting", "seeding"} /\ wpc'[w] # wpc[w]
                    /\ categories' # categories) =>
                    categories = <<>> /\ categories' = default_categories
              /\ (wpc[w] = "starting" /\ wpc'[w] # wpc[w] /\ categories # <<>>) =>
                    wpc'[w] = "serving" /\ categories' = categories ]_vars

C9_Witness ==
    /\ \E w \in Workers : wpc[w] = "failed"
    /\ SubSeq(categories, 1, 8) = default_categories
    /\ Len(categories) = 9

\* C10: every stored transaction refers to a stored category; a POST with an
\* unknown category_id is answered 400 and stores nothing; no step removes
\* or changes a category.
Resolvable(txs, cats) ==
    \A i \in 1..Len(txs) : txs[i].category_id \in 1..Len(cats)

C10_CategoryAlwaysResolves ==
    [][ /\ Resolvable(transactions', categories')
        /\ Len(categories') >= Len(categories)
        /\ SubSeq(categories', 1, Len(categories)) = categories
        /\ \A req \in TransactionRequests :
              (create_transaction(req) /\ ValidTransaction(req)
                 /\ req.category_id \notin 1..Len(categories)) =>
                 http_response'.status = 400 /\ transactions' = transactions
      ]_vars

C10_Witness ==
    /\ http_response.status = 400
    /\ Len(categories) = 9
    /\ \E i \in 1..Len(transactions) : transactions[i].category_id = 9

=============================================================================
